---- MODULE Spec2Model ----
(***************************************************************************)
(* Model of the cutoff matching engine of KCET-College-Compass:            *)
(* the /predict handler of src/app.py (lines 623-850).                     *)
(*                                                                         *)
(* Python strings are modelled as sequences of one-character strings, so   *)
(* that normalisation, splitting, substring tests, string ordering and the *)
(* difflib similarity are computed, not assumed.                           *)
(***************************************************************************)
EXTENDS Integers, Sequences, FiniteSets, TLC

VARIABLES
  cutoff_data,   \* the catalog, loaded once (app.py 29)
  pc,            \* "idle", or "handling" while a request is being served
  user_input,    \* the JSON body of the last /predict request
  resolved,      \* the locals of that request once its checks passed
  response,      \* the response of that request
  res_values,    \* fuzzy resolver on its own: the catalog values of a field,
  res_input,     \*   the text to resolve,
  res_result,    \*   and what it resolved to
  threads,       \* requests served concurrently: the locals of each handler
  norm_arg,      \* normalizer on its own: the string it is applied to,
  norm_out       \*   and the result of norm

vars == <<cutoff_data, pc, user_input, resolved, response, res_values, res_input, res_result, threads, norm_arg, norm_out>>

-----------------------------------------------------------------------------
(* Characters and Python str primitives                                    *)

\* The characters of the model in ascending code point order
\* (\t 9, space 32, & 38, - 45, 0-9 48.., A-Z 65.., _ 95, a-z 97..).
Chars ==
  << "\t", " ", "&", "-",
     "0", "1", "2", "3", "4", "5", "6", "7", "8", "9",
     "A", "B", "C", "D", "E", "F", "G", "H", "I", "J", "K", "L", "M",
     "N", "O", "P", "Q", "R", "S", "T", "U", "V", "W", "X", "Y", "Z",
     "_",
     "a", "b", "c", "d", "e", "f", "g", "h", "i", "j", "k", "l", "m",
     "n", "o", "p", "q", "r", "s", "t", "u", "v", "w", "x", "y", "z" >>

Ord(c) == CHOOSE i \in 1..Len(Chars) : Chars[i] = c

IsSpace(c) == c \in {" ", "\t"}

\* str.lower() on one character
LowerChar(c) == IF Ord(c) \in 15..40 THEN Chars[Ord(c) + 27] ELSE c

\* str.lower()
Lower(s) == [i \in 1..Len(s) |-> LowerChar(s[i])]

\* str.strip(): drops leading and trailing whitespace
Strip(s) ==
  LET nonsp == {i \in 1..Len(s) : ~IsSpace(s[i])}
      Min(S) == CHOOSE x \in S : \A y \in S : x <= y
      Max(S) == CHOOSE x \in S : \A y \in S : x >= y
  IN  IF nonsp = {} THEN <<>> ELSE SubSeq(s, Min(nonsp), Max(nonsp))

RECURSIVE ReplaceChar(_, _, _)
\* str.replace(c, r) for a one-character pattern c
ReplaceChar(s, c, r) ==
  IF s = <<>> THEN <<>>
  ELSE (IF Head(s) = c THEN r ELSE <<Head(s)>>) \o ReplaceChar(Tail(s), c, r)

\* Python's < on str: lexicographic by code point
RECURSIVE StrLess(_, _)
StrLess(a, b) ==
  IF b = <<>> THEN FALSE
  ELSE IF a = <<>> THEN TRUE
  ELSE IF Head(a) # Head(b) THEN Ord(Head(a)) < Ord(Head(b))
  ELSE StrLess(Tail(a), Tail(b))

\* the greatest string of a non-empty set
StrMax(S) == CHOOSE x \in S : \A y \in S : y = x \/ StrLess(y, x)

\* sorted(set(...)) of strings
RECURSIVE SortedStrs(_)
SortedStrs(S) ==
  IF S = {} THEN <<>>
  ELSE LET m == StrMax(S) IN Append(SortedStrs(S \ {m}), m)

\* `sub in s`
Contains(s, sub) ==
  \E i \in 1..(Len(s) - Len(sub) + 1) : SubSeq(s, i, i + Len(sub) - 1) = sub

\* ' '.join(s.split()): whitespace runs collapse to one space, ends stripped
RECURSIVE CollapseWs(_)
CollapseWs(s) ==
  LET t == Strip(s) IN
  IF t = <<>> THEN <<>>
  ELSE IF \A i \in 1..Len(t) : ~IsSpace(t[i]) THEN t
  ELSE LET k == CHOOSE i \in 1..Len(t) :
                  IsSpace(t[i]) /\ \A j \in 1..(i-1) : ~IsSpace(t[j])
       IN  SubSeq(t, 1, k - 1) \o <<" ">> \o CollapseWs(SubSeq(t, k + 1, Len(t)))

\* str(n) for an integer
RECURSIVE DigitsOf(_)
DigitsOf(n) ==
  IF n < 10 THEN <<Chars[5 + n]>>
  ELSE Append(DigitsOf(n \div 10), Chars[5 + (n % 10)])

IntToStr(n) == IF n < 0 THEN <<"-">> \o DigitsOf(-n) ELSE DigitsOf(n)

-----------------------------------------------------------------------------
(* Normalizer: app.py line 699                                             *)

\* the normalizer with '&' replaced by ' and ', spaces around the word
norm_SpacedAnd(s) == ReplaceChar(ReplaceChar(Lower(Strip(s)), " ", <<>>), "&", <<" ", "a", "n", "d", " ">>)

norm(s) == ReplaceChar(ReplaceChar(Lower(Strip(s)), " ", <<>>), "&", <<"a", "n", "d">>)

-----------------------------------------------------------------------------
(* difflib.get_close_matches(val, options, n=1, cutoff=0.6)                *)

RECURSIVE CommonLen(_, _, _, _, _, _)
\* length of the common run of a[i..ahi-1] and b[j..bhi-1] starting at i, j
CommonLen(a, b, i, j, ahi, bhi) ==
  IF i < ahi /\ j < bhi /\ a[i] = b[j]
  THEN 1 + CommonLen(a, b, i + 1, j + 1, ahi, bhi)
  ELSE 0

\* the length of the longest common block of a[alo..ahi-1] and b[blo..bhi-1]
LongestLen(a, b, alo, ahi, blo, bhi) ==
  CHOOSE n \in 0..(ahi - alo) :
    /\ n = 0 \/ \E i \in alo..(ahi - 1) : \E j \in blo..(bhi - 1) :
                  CommonLen(a, b, i, j, ahi, bhi) = n
    /\ \A i \in alo..(ahi - 1) : \A j \in blo..(bhi - 1) :
         CommonLen(a, b, i, j, ahi, bhi) <= n

\* where in b the block of length k that starts at i in a starts first
FirstInB(a, b, i, ahi, blo, bhi, k) ==
  CHOOSE j \in blo..(bhi - 1) :
    /\ CommonLen(a, b, i, j, ahi, bhi) = k
    /\ \A j2 \in blo..(j - 1) : CommonLen(a, b, i, j2, ahi, bhi) # k

\* where in a a block of length k starts first
FirstInA(a, b, alo, ahi, blo, bhi, k) ==
  CHOOSE i \in alo..(ahi - 1) :
    /\ \E j \in blo..(bhi - 1) : CommonLen(a, b, i, j, ahi, bhi) = k
    /\ \A i2 \in alo..(i - 1) : \A j \in blo..(bhi - 1) :
         CommonLen(a, b, i2, j, ahi, bhi) # k

BlockAt(a, b, i, ahi, blo, bhi, k) == <<i, FirstInB(a, b, i, ahi, blo, bhi, k), k>>

BlockOfLen(a, b, alo, ahi, blo, bhi, k) ==
  IF k = 0 THEN <<alo, blo, 0>>
  ELSE BlockAt(a, b, FirstInA(a, b, alo, ahi, blo, bhi, k), ahi, blo, bhi, k)

\* SequenceMatcher.find_longest_match without junk: the longest block,
\* of those the one starting earliest in a, of those the earliest in b
find_longest_match(a, b, alo, ahi, blo, bhi) ==
  BlockOfLen(a, b, alo, ahi, blo, bhi, LongestLen(a, b, alo, ahi, blo, bhi))

RECURSIVE MatchCount(_, _, _, _, _, _)
RECURSIVE MatchAround(_, _, _, _, _, _, _)
\* the block m and the matches to its left and to its right
MatchAround(a, b, alo, ahi, blo, bhi, m) ==
  IF m[3] = 0 THEN 0
  ELSE m[3] + MatchCount(a, b, alo, m[1], blo, m[2])
            + MatchCount(a, b, m[1] + m[3], ahi, m[2] + m[3], bhi)

\* the sum of the sizes of SequenceMatcher.get_matching_blocks()
MatchCount(a, b, alo, ahi, blo, bhi) ==
  IF alo >= ahi \/ blo >= bhi THEN 0
  ELSE MatchAround(a, b, alo, ahi, blo, bhi,
                   find_longest_match(a, b, alo, ahi, blo, bhi))

\* matches of SequenceMatcher with seq1 = x (the option), seq2 = val
Matches(x, val) == MatchCount(x, val, 1, Len(x) + 1, 1, Len(val) + 1)

\* the similarity cutoff of best_match, in tenths (0.6)
CutoffTenths == 6

\* ratio() >= cutoff, with ratio() = 2.0 * matches / (len(a) + len(b)),
\* and 1.0 when both are empty
RatioAtLeastCutoff(x, val) ==
  LET T == Len(x) + Len(val) IN
  IF T = 0 THEN TRUE ELSE 2 * 10 * Matches(x, val) >= CutoffTenths * T

\* ratio() as the fraction RatioNum / RatioDen
RatioNum(x, val) == IF Len(x) + Len(val) = 0 THEN 1 ELSE 2 * Matches(x, val)
RatioDen(x, val) == IF Len(x) + Len(val) = 0 THEN 1 ELSE Len(x) + Len(val)

\* (nx/dx, x) < (ny/dy, y) as Python compares tuples
PairLess(nx, dx, x, ny, dy, y) ==
  \/ nx * dy < ny * dx
  \/ nx * dy = ny * dx /\ StrLess(x, y)

\* (ratio(x), x) < (ratio(y), y)
ScoreLess(x, y, val) ==
  PairLess(RatioNum(x, val), RatioDen(x, val), x, RatioNum(y, val), RatioDen(y, val), y)

NoneVal == [found |-> FALSE, val |-> <<>>]
Some(v) == [found |-> TRUE, val |-> v]

\* Python truthiness of an Optional[str]: None and '' are falsy
Truthy(o) == o.found /\ o.val # <<>>

\* heapq.nlargest(1, ...) of the (ratio, option) pairs of the close options
BestOf(close, val) ==
  IF close = {} THEN NoneVal
  ELSE Some(CHOOSE x \in close : \A y \in close : y = x \/ ScoreLess(y, x, val))

\* app.py 694-696; options is the set of keys of a normalised mapping
best_match(val, options) ==
  BestOf({x \in options : RatioAtLeastCutoff(x, val)}, val)

-----------------------------------------------------------------------------
(* Fuzzy resolver: app.py lines 700-708 (category), 713-716 (course),      *)
(* 732-735 (round)                                                         *)

\* keys of {norm(v): v for v in sorted(set(values))}
NormKeys(values) == {norm(v) : v \in values}

\* the mapping built with the normalised key as its value
NormGet_Key(values, key) ==
  LET same == {v \in values : norm(v) = key} IN
  IF same = {} THEN NoneVal ELSE Some(key)

\* dict.get(key) on that mapping: of the values that share a normalised key
\* the one inserted last, the greatest in sorted order, is the one kept
NormGet(values, key) ==
  LET same == {v \in values : norm(v) = key} IN
  IF same = {} THEN NoneVal ELSE Some(StrMax(same))

\* mapping.get(x, x)
GetOrSelf(x, again) == IF again.found THEN again ELSE Some(x)

\* if x: x = mapping.get(x, x)  else: not found
Relookup(m, values) ==
  IF Truthy(m) THEN GetOrSelf(m.val, NormGet(values, m.val)) ELSE NoneVal

\* exact or best_match(n, keys)
ExactOrClose(exact, n, values) ==
  IF Truthy(exact) THEN exact ELSE best_match(n, NormKeys(values))

ResolveNorm(n, values) ==
  Relookup(ExactOrClose(NormGet(values, n), n, values), values)

\* x = mapping.get(norm(input)) or best_match(norm(input), keys);
\* if x: x = mapping.get(x, x)  else: not found
resolve(input, values) == ResolveNorm(norm(input), values)

-----------------------------------------------------------------------------
(* Request parsing                                                         *)

IsDigit(c) == Ord(c) \in 5..14

RECURSIVE DigitsValue(_)
DigitsValue(s) ==
  IF s = <<>> THEN 0
  ELSE 10 * DigitsValue(SubSeq(s, 1, Len(s) - 1)) + (Ord(s[Len(s)]) - 5)

\* int(str): surrounding whitespace and a sign are accepted, single
\* underscores may separate digits; anything else raises ValueError
ParseIntStr(s) ==
  LET t    == Strip(s)
      neg  == t # <<>> /\ Head(t) = "-"
      body == IF neg THEN Tail(t) ELSE t
      ok   == /\ body # <<>>
              /\ \A i \in 1..Len(body) :
                   \/ IsDigit(body[i])
                   \/ /\ body[i] = "_"
                      /\ 1 < i /\ i < Len(body)
                      /\ IsDigit(body[i-1]) /\ IsDigit(body[i+1])
      v    == DigitsValue(SelectSeq(body, IsDigit))
  IN  IF ok THEN [ok |-> TRUE, n |-> IF neg THEN -v ELSE v]
      ELSE [ok |-> FALSE, n |-> 0]

\* app.py 670-677: int(user_input.get('rank')) of a JSON integer or string
ParseRank(r) == IF r.isnum THEN [ok |-> TRUE, n |-> r.n] ELSE ParseIntStr(r.s)

\* round_name.split(' ', 1) when ' ' in round_name (app.py 728-730)
SplitFirstSpace(s) ==
  LET k == CHOOSE i \in 1..Len(s) : s[i] = " " /\ \A j \in 1..(i-1) : s[j] # " "
  IN  <<SubSeq(s, 1, k - 1), SubSeq(s, k + 1, Len(s))>>

-----------------------------------------------------------------------------
(* Rank window: app.py 742-745                                             *)

\* int(x) of the non-negative rational n/d truncates
TruncDiv(n, d) == IF n >= 0 THEN n \div d ELSE -((-n) \div d)

RECURSIVE Pow2Below(_, _)
\* the greatest power of two p (starting from p) with p < k
Pow2Below(k, p) == IF 2 * p < k THEN Pow2Below(k, 2 * p) ELSE p

\* the slack added above max_rank for nearby matches (app.py 788)
NearbySlack == 75000

\* the slack below rank for non-nearby matches (app.py 792)
ExactSlack == 1000

\* rank_margin = 0.15, in percent (app.py 743)
MarginPercent == 15

\* int(rank * (1 - 0.15)): the double 1 - 0.15 is 0.85 less 2^-55 or so, and
\* the product rounds to the exact value whenever that is an integer
MinRank(rank, include_nearby) ==
  IF include_nearby THEN TruncDiv(rank * (100 - MarginPercent), 100) ELSE rank

\* int(rank * (1 + 0.15)): the double 1 + 0.15 is 1.15 - 2/(5 * 2^52), so when
\* 1.15 * rank is an integer k the product rounds to the double below k, and
\* truncates to k - 1, iff 4 * |rank| > 5 * 2^e for 2^e < k <= 2^(e+1)
MaxRank(rank, include_nearby) ==
  IF ~include_nearby THEN rank
  ELSE LET n == IF rank < 0 THEN -rank ELSE rank
           k == (n * (100 + MarginPercent)) \div 100
           m == IF n > 0 /\ (n * (100 + MarginPercent)) % 100 = 0
                   /\ 4 * n > 5 * Pow2Below(k, 1)
                THEN k - 1 ELSE k
       IN  IF rank < 0 THEN -m ELSE m

-----------------------------------------------------------------------------
(* Catalog index sets                                                      *)

FieldSet(data, f) == {data[i][f] : i \in 1..Len(data)}

\* COURSE_FULL_NAMES (app.py 174-306), the entries of the codes of the model
COURSE_FULL_NAMES ==
  (<<"C", "S">> :> <<"C", "o", "m", "p", "u", "t", "e", "r", "s", " ", "S", "c", "i", "e", "n", "c", "e", " ", "A", "n", "d", " ", "E", "n", "g", "i", "n", "e", "e", "r", "i", "n", "g">>)
  @@ (<<"E", "C">> :> <<"E", "l", "e", "c", "t", "r", "o", "n", "i", "c", "s", " ", "a", "n", "d", " ", "C", "o", "m", "m", "u", "n", "i", "c", "a", "t", "i", "o", "n", " ", "E", "n", "g", "i", "n", "e", "e", "r", "i", "n", "g">>)

-----------------------------------------------------------------------------
(* Responses of /predict                                                   *)

Resp(kind, status) ==
  [kind |-> kind, status |-> status, results |-> <<>>, suggestions |-> <<>>,
   missing |-> <<>>, criteria |-> <<>>, available |-> <<>>]

\* the four sorted index lists of the 404 response (app.py 767-770); the
\* 200 message response carries them without the courses (app.py 838-840)
Available(data, keys) ==
  [k \in keys |-> SortedStrs(FieldSet(data,
      CASE k = "years" -> "year" [] k = "categories" -> "category"
        [] k = "courses" -> "course" [] OTHER -> "round"))]

-----------------------------------------------------------------------------
(* Filter-and-rank pipeline                                                *)

\* app.py 756: f"{entry['institute_code']}_{entry['institute']}"
InstituteKey(e) == e.institute_code \o <<"_">> \o e.institute

\* app.py 749-760: the pre-filter on year, category, course, institute, round
PreFilterPass(e, year, category, course, selected_institute, is_all_rounds, input_round_norm) ==
  /\ e.year = year
  /\ e.category = category
  /\ (course # <<>> => e.course = course)
  /\ (selected_institute # <<>> => InstituteKey(e) = selected_institute)
  /\ (~is_all_rounds => norm(e.round) = input_round_norm)

\* app.py 780-783: the second round test, on ' '.join(round.lower().split())
RoundPass(e, is_all_rounds, input_round_norm) ==
  is_all_rounds \/ CollapseWs(Lower(e.round)) = input_round_norm

\* the rule with the non-nearby test left out
RankPass_NoExactTest(e, rank, include_nearby) ==
  IF include_nearby
  THEN /\ MinRank(rank, TRUE) <= e.cutoff_rank
       /\ e.cutoff_rank <= MaxRank(rank, TRUE) + NearbySlack
  ELSE TRUE

\* the rule with the two nearby bounds joined by `or`
RankPass_Or(e, rank, include_nearby) ==
  IF include_nearby
  THEN \/ MinRank(rank, TRUE) <= e.cutoff_rank
       \/ e.cutoff_rank <= MaxRank(rank, TRUE) + NearbySlack
  ELSE ~(e.cutoff_rank < rank - ExactSlack)

\* app.py 786-793: the rank admission rule
RankPass(e, rank, include_nearby) ==
  IF include_nearby
  THEN /\ MinRank(rank, TRUE) <= e.cutoff_rank
       /\ e.cutoff_rank <= MaxRank(rank, TRUE) + NearbySlack
  ELSE ~(e.cutoff_rank < rank - ExactSlack)

\* app.py 796: the deduplication key
combo_key(e) ==
  e.institute_code \o <<"_">> \o e.course \o <<"_">> \o e.category \o <<"_">>
    \o IntToStr(e.cutoff_rank) \o <<"_">> \o e.year \o <<"_">> \o e.round

\* the test with the seen keys ignored
IsDuplicate_Never(key, seen) == FALSE

\* app.py 798-799: an entry whose key was seen is dropped
IsDuplicate(key, seen) == key \in seen

\* app.py 803-819: the enriched result; rank_diff is the value of
\* ((cutoff_rank - rank) / rank) * 100, kept as the fraction num/den
Enrich(e, rank) ==
  [institute      |-> e.institute,
   institute_code |-> e.institute_code,
   cutoff_rank    |-> e.cutoff_rank,
   course         |-> IF e.course \in DOMAIN COURSE_FULL_NAMES
                      THEN COURSE_FULL_NAMES[e.course] ELSE e.course,
   course_code    |-> e.course,
   category       |-> e.category,
   round          |-> e.round,
   year           |-> e.year,
   likely         |-> e.cutoff_rank >= rank,
   rank_diff      |-> [num |-> (e.cutoff_rank - rank) * 100, den |-> rank]]

\* app.py 788, 792: comparing a cutoff_rank that is no number (JSON null)
\* with an integer raises TypeError
CompareRaises(e) == e.cutoff_null

\* app.py 803: the division raises ZeroDivisionError when rank = 0
DivisionRaises(rank) == rank = 0

\* the loop given up at the entry that raised, with the results so far
OnError_Abort(continued, out) == out

\* app.py 821-823: the error of an entry is logged and the loop goes on
\* with the next entry
OnError(continued, out) == continued

RECURSIVE MatchLoop(_, _, _, _, _, _, _, _)
\* app.py 777-823: the loop over filtered_data from index i on, with the
\* keys seen and the results collected so far.  An entry that raises at the
\* rank comparison is skipped before its key is made; one that raises at
\* the division is skipped after its key was added to seen_combinations.
MatchLoop(fd, i, seen, out, rank, include_nearby, is_all_rounds, input_round_norm) ==
  IF i > Len(fd) THEN out
  ELSE IF ~RoundPass(fd[i], is_all_rounds, input_round_norm)
  THEN MatchLoop(fd, i + 1, seen, out, rank, include_nearby,
                 is_all_rounds, input_round_norm)
  ELSE IF CompareRaises(fd[i])
  THEN OnError(MatchLoop(fd, i + 1, seen, out, rank, include_nearby,
                         is_all_rounds, input_round_norm), out)
  ELSE IF ~RankPass(fd[i], rank, include_nearby) \/ IsDuplicate(combo_key(fd[i]), seen)
  THEN MatchLoop(fd, i + 1, seen, out, rank, include_nearby,
                 is_all_rounds, input_round_norm)
  ELSE IF DivisionRaises(rank)
  THEN OnError(MatchLoop(fd, i + 1, seen \cup {combo_key(fd[i])}, out, rank,
                         include_nearby, is_all_rounds, input_round_norm), out)
  ELSE MatchLoop(fd, i + 1, seen \cup {combo_key(fd[i])},
                 Append(out, Enrich(fd[i], rank)),
                 rank, include_nearby, is_all_rounds, input_round_norm)

\* app.py 845: the sort key (not x['likely'], x['cutoff_rank']), compared <=
SortKeyLE(a, b) ==
  LET na == IF a.likely THEN 0 ELSE 1
      nb == IF b.likely THEN 0 ELSE 1
  IN  na < nb \/ (na = nb /\ a.cutoff_rank <= b.cutoff_rank)

\* the insertion that puts x in front of the elements of equal key
InsertStable_BeforeEqual(sorted, x) ==
  LET n == Cardinality({i \in 1..Len(sorted) : ~SortKeyLE(x, sorted[i])})
  IN  SubSeq(sorted, 1, n) \o <<x>> \o SubSeq(sorted, n + 1, Len(sorted))

\* inserts x behind every element whose key is <= the key of x
InsertStable(sorted, x) ==
  LET n == Cardinality({i \in 1..Len(sorted) : SortKeyLE(sorted[i], x)})
  IN  SubSeq(sorted, 1, n) \o <<x>> \o SubSeq(sorted, n + 1, Len(sorted))

RECURSIVE SortResults(_)
\* list.sort(key=...) is stable: equal keys keep their list order
SortResults(l) ==
  IF l = <<>> THEN <<>>
  ELSE InsertStable(SortResults(SubSeq(l, 1, Len(l) - 1)), l[Len(l)])

-----------------------------------------------------------------------------
(* Query resolver: app.py 650-745                                          *)

\* app.py 651
required_fields == <<"rank", "category", "round_name">>

NoQuery ==
  [set |-> FALSE, rank |-> 0, category |-> <<>>, course |-> <<>>, year |-> <<>>,
   round_text |-> <<>>, round_match |-> <<>>, input_round_norm |-> <<>>,
   is_all_rounds |-> FALSE, include_nearby |-> FALSE, institute |-> <<>>,
   min_rank |-> 0, max_rank |-> 0]

Fail(r) == [ok |-> FALSE, error |-> r, q |-> NoQuery]

AllRoundsText == <<"a", "l", "l", " ", "r", "o", "u", "n", "d", "s">>

\* app.py 742-745: the request passed every check
Resolved(inp, rank, category, course, year, round_text, round_match) ==
  [ok |-> TRUE, error |-> Resp("none", 0),
   q |-> [set |-> TRUE, rank |-> rank, category |-> category,
          course |-> course, year |-> year,
          round_text |-> round_text, round_match |-> round_match,
          input_round_norm |-> norm(round_text),
          is_all_rounds |-> Contains(Lower(inp.round_name), AllRoundsText),
          include_nearby |-> inp.include_nearby,
          institute |-> inp.institute,
          min_rank |-> MinRank(rank, inp.include_nearby),
          max_rank |-> MaxRank(rank, inp.include_nearby)]]

\* the catalog values of the field as they are, sorted
Suggestions_Raw(data, f) == SortedStrs(FieldSet(data, f))

\* app.py 710, 718, 737: sorted(norm_<field>.keys())
Suggestions(data, f) == SortedStrs(NormKeys(FieldSet(data, f)))

\* app.py 734-737
CheckRound(data, inp, rank, category, course, year, round_text, round_match) ==
  IF ~round_match.found
  THEN Fail([Resp("round_not_found", 400)
              EXCEPT !.suggestions = Suggestions(data, "round")])
  ELSE Resolved(inp, rank, category, course, year, round_text, round_match.val)

\* app.py 731-733
ResolveRound(data, inp, rank, category, course, year, round_text) ==
  CheckRound(data, inp, rank, category, course, year, round_text,
             resolve(round_text, FieldSet(data, "round")))

\* app.py 728-730
SplitRound(data, inp, rank, category, course, parts) ==
  ResolveRound(data, inp, rank, category, course, parts[1], parts[2])

\* the year that is greatest as a number
LatestYear_Numeric(data) ==
  CHOOSE y \in FieldSet(data, "year") :
    \A z \in FieldSet(data, "year") : DigitsValue(z) <= DigitsValue(y)

\* app.py 725: sorted(set(years))[-1], the greatest year as a string
LatestYear(data) == StrMax(FieldSet(data, "year"))

\* app.py 722-730
ParseRound(data, inp, rank, category, course) ==
  IF \E i \in 1..Len(inp.round_name) : inp.round_name[i] = " "
  THEN SplitRound(data, inp, rank, category, course, SplitFirstSpace(inp.round_name))
  ELSE IF FieldSet(data, "year") = {}
  THEN Fail(Resp("no_year_data", 400))
  ELSE ResolveRound(data, inp, rank, category, course,
                    LatestYear(data), inp.round_name)

\* app.py 715-718
CheckCourse(data, inp, rank, category, course) ==
  IF ~course.found
  THEN Fail([Resp("course_not_found", 400)
              EXCEPT !.suggestions = Suggestions(data, "course")])
  ELSE ParseRound(data, inp, rank, category, course.val)

\* the course resolved and reported ahead of the category
CheckCategory_CourseFirst(data, inp, rank, category) ==
  IF ~resolve(inp.course, FieldSet(data, "course")).found
  THEN Fail([Resp("course_not_found", 400)
              EXCEPT !.suggestions = Suggestions(data, "course")])
  ELSE IF ~category.found
  THEN Fail([Resp("category_not_found", 400)
              EXCEPT !.suggestions = Suggestions(data, "category")])
  ELSE ParseRound(data, inp, rank, category.val,
                  resolve(inp.course, FieldSet(data, "course")).val)

\* app.py 707-714
CheckCategory(data, inp, rank, category) ==
  IF ~category.found
  THEN Fail([Resp("category_not_found", 400)
              EXCEPT !.suggestions = Suggestions(data, "category")])
  ELSE CheckCourse(data, inp, rank, category.val,
                   resolve(inp.course, FieldSet(data, "course")))

\* app.py 670-706
CheckRank(data, inp, pr) ==
  IF ~pr.ok
  THEN Fail(Resp("invalid_rank", 400))
  ELSE CheckCategory(data, inp, pr.n, resolve(inp.category, FieldSet(data, "category")))

\* app.py 652
MissingFields(inp) == SelectSeq(required_fields, LAMBDA f : f \in inp.absent)

\* The checks of the handler in their order; each returns at once on failure
ResolveQuery(data, inp) ==
  IF MissingFields(inp) # <<>>
  THEN Fail([Resp("missing_fields", 400) EXCEPT !.missing = MissingFields(inp)])
  ELSE CheckRank(data, inp, ParseRank(inp.rank))

\* app.py 747-760
PreFilter(data, q) ==
  SelectSeq(data, LAMBDA e : PreFilterPass(e, q.year, q.category, q.course,
                               q.institute, q.is_all_rounds, q.input_round_norm))

\* app.py 777-823
MatchingColleges(data, q) ==
  MatchLoop(PreFilter(data, q), 1, {}, <<>>, q.rank, q.include_nearby,
            q.is_all_rounds, q.input_round_norm)

\* app.py 825-847
Ranked(data, q, matching_colleges) ==
  IF matching_colleges = <<>>
  THEN [Resp("empty_after_rank", 200) EXCEPT
          !.criteria = [year |-> q.year, round |-> q.round_match,
                        is_all_rounds |-> q.is_all_rounds,
                        category |-> q.category, course |-> q.course,
                        institute |-> q.institute,
                        rank_lo |-> q.min_rank,
                        rank_hi |-> IF q.include_nearby
                                    THEN q.max_rank + NearbySlack
                                    ELSE q.rank - ExactSlack],
          !.available = Available(data, {"years", "categories", "rounds"})]
  ELSE [Resp("results", 200) EXCEPT !.results = SortResults(matching_colleges)]

\* app.py 761-823
Filter(data, q, filtered_data) ==
  IF filtered_data = <<>>
  THEN [Resp("no_data", 404) EXCEPT
          !.criteria = [year |-> q.year, category |-> q.category,
                        course |-> q.course, round |-> q.round_match],
          !.available = Available(data, {"years", "categories", "courses", "rounds"})]
  ELSE Ranked(data, q,
              MatchLoop(filtered_data, 1, {}, <<>>, q.rank, q.include_nearby,
                        q.is_all_rounds, q.input_round_norm))

\* app.py 747-847
Match(data, q) == Filter(data, q, PreFilter(data, q))

\* the response to a request whose checks ended as r
Respond(data, r) == IF r.ok THEN Match(data, r.q) ELSE r.error

\* the whole handler
predict(data, inp) == Respond(data, ResolveQuery(data, inp))

-----------------------------------------------------------------------------
(* The strings of the bounded catalogs and requests                        *)

s_2024 == <<"2", "0", "2", "4">>
s_2023 == <<"2", "0", "2", "3">>
s_Round1 == <<"R", "o", "u", "n", "d", " ", "1">>
s_round1 == <<"r", "o", "u", "n", "d", "1">>
s_MockRound == <<"M", "o", "c", "k", " ", "R", "o", "u", "n", "d">>
s_E001 == <<"E", "0", "0", "1">>
s_E002 == <<"E", "0", "0", "2">>
s_A == <<"A">>
s_B == <<"B">>
s_CS == <<"C", "S">>
s_EC == <<"E", "C">>
s_GM == <<"G", "M">>
s_SC == <<"S", "C">>
s_gm == <<"g", "m">>
s_xyz == <<"x", "y", "z">>
s_xyz123 == <<"x", "y", "z", "1", "2", "3">>
s_cs == <<"c", "s">>
s_ec == <<"e", "c">>
s_zz == <<"z", "z">>
s_q_round1 == <<"2", "0", "2", "4", " ", "r", "o", "u", "n", "d", "1">>
s_q_all == <<"2", "0", "2", "4", " ", "A", "l", "l", " ", "R", "o", "u", "n", "d", "s">>
s_q_roundl == <<"2", "0", "2", "4", " ", "r", "o", "u", "n", "d", "l">>
s_q_bare == <<"r", "o", "u", "n", "d", "1">>
s_q_2023 == <<"2", "0", "2", "3", " ", "R", "o", "u", "n", "d", " ", "1">>
s_q_none == <<"2", "0", "2", "4", " ", "z", "z", "z">>
s_E001_A == <<"E", "0", "0", "1", "_", "A">>
s_abc == <<"a", "b", "c">>
s_5000 == <<" ", "5", "0", "0", "0", " ">>

-----------------------------------------------------------------------------
(* The state machine: one catalog, any number of /predict requests         *)

\* a catalog record; cutoff_null says that its cutoff_rank is JSON null,
\* a value the load of app.py 20-101 stores without looking at it
Rec(year, round, code, inst, course, category, cutoff) ==
  [year |-> year, round |-> round, institute_code |-> code, institute |-> inst,
   course |-> course, category |-> category, cutoff_rank |-> cutoff,
   cutoff_null |-> FALSE]

\* the record with "cutoff_rank": null
NullCutoff(e) == [e EXCEPT !.cutoff_rank = 0, !.cutoff_null = TRUE]

\* the records catalogs are built from
RecordPool ==
  << Rec(s_2024, s_Round1,    s_E001, s_A, s_CS, s_GM, 5000),
     Rec(s_2024, s_round1,    s_E002, s_B, s_CS, s_GM, 5000),
     Rec(s_2024, s_round1,    s_E001, s_A, s_CS, s_GM, 4100),
     Rec(s_2024, s_MockRound, s_E002, s_B, s_CS, s_GM, 200000),
     Rec(s_2023, s_round1,    s_E001, s_A, s_EC, s_SC, 6000) >>

\* the longest catalog
MaxRecords == 3

RECURSIVE SeqsUpTo(_, _)
\* the sequences over S of length at most n
SeqsUpTo(S, n) ==
  IF n = 0 THEN {<<>>}
  ELSE LET shorter == SeqsUpTo(S, n - 1)
       IN  shorter \cup {Append(q, x) : q \in shorter, x \in S}

Catalogs == SeqsUpTo({RecordPool[i] : i \in 1..Len(RecordPool)}, MaxRecords)

NumRank(n) == [isnum |-> TRUE, n |-> n, s |-> <<>>]
StrRank(s) == [isnum |-> FALSE, n |-> 0, s |-> s]

Req(absent, rank, category, course, round_name, nearby, institute) ==
  [absent |-> absent, rank |-> rank, category |-> category, course |-> course,
   round_name |-> round_name, include_nearby |-> nearby, institute |-> institute]

\* well-formed requests
FullRequests ==
  { Req({}, NumRank(r), s_gm, s_cs, rn, nb, inst) :
      r \in {5000, 6000},
      rn \in {s_q_round1, s_q_all, s_q_roundl},
      nb \in BOOLEAN, inst \in {<<>>, s_E001_A} }

\* requests that differ from a well-formed one in one or two fields
OddRequests ==
  { Req(a, NumRank(5000), s_gm, s_cs, s_q_round1, FALSE, <<>>) :
      a \in {{"rank"}, {"category", "round_name"}} }
  \cup
  { Req({}, r, s_gm, s_cs, s_q_all, nb, <<>>) :
      r \in {NumRank(0), NumRank(-50), StrRank(s_abc), StrRank(s_5000)},
      nb \in BOOLEAN }
  \cup
  { Req({}, NumRank(5000), cat, c, rn, FALSE, <<>>) :
      cat \in {s_xyz, s_SC}, c \in {s_cs, s_ec}, rn \in {s_q_all, s_q_2023} }
  \cup
  { Req({}, NumRank(5000), s_gm, c, rn, FALSE, <<>>) :
      c \in {<<>>, s_zz, s_ec}, rn \in {s_q_round1, s_q_all} }
  \cup
  { Req({}, NumRank(5000), s_gm, s_cs, rn, nb, <<>>) :
      rn \in {s_q_bare, s_q_2023, s_q_none}, nb \in BOOLEAN }
  \cup
  { Req(a, StrRank(s_abc), s_xyz, s_zz, s_q_none, FALSE, <<>>) :
      a \in {{}, {"round_name"}} }
  \cup
  { Req({}, NumRank(5000), s_xyz123, s_cs, s_q_all, FALSE, <<>>) }

Requests == FullRequests \cup OddRequests

NoInput == Req({}, NumRank(0), <<>>, <<>>, <<>>, FALSE, <<>>)

\* the requests that may be in progress at once
Threads == {"t1", "t2"}

\* the locals of predict() before a request arrived
IdleThread ==
  [pc |-> "idle", user_input |-> NoInput, q |-> NoQuery, filtered_data |-> <<>>,
   i |-> 0, seen_combinations |-> {}, matching_colleges |-> <<>>,
   response |-> Resp("none", 0), interleaved |-> FALSE]

NoThreads == [t \in Threads |-> IdleThread]

Init ==
  /\ cutoff_data \in Catalogs
  /\ pc = "idle"
  /\ user_input = NoInput
  /\ resolved = NoQuery
  /\ response = Resp("none", 0)
  /\ res_values = {}
  /\ res_input = <<>>
  /\ res_result = NoneVal
  /\ threads = NoThreads
  /\ norm_arg = <<>>
  /\ norm_out = <<>>

\* a request arrives (app.py 634); the previous one was answered
Receive(inp) ==
  /\ pc = "idle"
  /\ pc' = "handling"
  /\ user_input' = inp
  /\ resolved' = NoQuery
  /\ response' = Resp("none", 0)
  /\ UNCHANGED <<cutoff_data, res_values, res_input, res_result, threads, norm_arg, norm_out>>

\* the handler runs from its first check to its response (app.py 650-850)
Predict ==
  /\ pc = "handling"
  /\ pc' = "idle"
  /\ resolved' = ResolveQuery(cutoff_data, user_input).q
  /\ response' = predict(cutoff_data, user_input)
  /\ UNCHANGED <<cutoff_data, user_input, res_values, res_input, res_result, threads, norm_arg, norm_out>>

Next ==
  \/ \E inp \in Requests : Receive(inp)
  \/ Predict

Spec == Init /\ [][Next]_vars

-----------------------------------------------------------------------------
(* The same handler on catalogs as the load accepts them: the load reads  *)
(* every key of a record and sorts its years, categories, rounds and      *)
(* courses (app.py 39-98), but validates no value, so cutoff_rank may be  *)
(* null, field values may hold '_', and years need not be four digits     *)

s_999 == <<"9", "9", "9">>
s_C == <<"C">>
s_round_tail == <<"_", "C", "S", "_", "G", "M", "_", "5", "0", "0", "0", "_", "2", "0", "2", "4", "_", "r", "o", "u", "n", "d", "1">>
s_code_head == <<"E", "0", "0", "1", "_", "C", "S", "_", "G", "M", "_", "5", "0", "0", "0", "_", "2", "0", "2", "4", "_">>

RawPool ==
  << NullCutoff(Rec(s_2024, s_round1, s_E001, s_A, s_CS, s_GM, 0)),
     Rec(s_2024, s_round1,     s_E002,      s_B, s_CS, s_GM, 5000),
     Rec(s_2024, s_round1,     s_E002,      s_C, s_CS, s_GM, 5000),
     Rec(s_2024, s_round_tail, s_E001,      s_A, s_CS, s_GM, 5000),
     Rec(s_2024, s_round1,     s_code_head, s_A, s_CS, s_GM, 5000),
     Rec(s_999,  s_round1,     s_E001,      s_A, s_CS, s_GM, 5000) >>

RawCatalogs == SeqsUpTo({RawPool[i] : i \in 1..Len(RawPool)}, MaxRecords)

RawRequests ==
  { Req({}, NumRank(5000), s_gm, s_cs, rn, nb, <<>>) :
      rn \in {s_q_round1, s_q_all, s_q_bare}, nb \in BOOLEAN }
  \cup
  { Req({}, NumRank(0), s_gm, s_cs, s_q_round1, FALSE, <<>>),
    Req({}, NumRank(5000), s_gm, s_cs, s_q_round1, FALSE, s_E001_A) }

InitRaw ==
  /\ cutoff_data \in RawCatalogs
  /\ pc = "idle"
  /\ user_input = NoInput
  /\ resolved = NoQuery
  /\ response = Resp("none", 0)
  /\ res_values = {}
  /\ res_input = <<>>
  /\ res_result = NoneVal
  /\ threads = NoThreads
  /\ norm_arg = <<>>
  /\ norm_out = <<>>

NextRaw ==
  \/ \E inp \in RawRequests : Receive(inp)
  \/ Predict

SpecRaw == InitRaw /\ [][NextRaw]_vars

-----------------------------------------------------------------------------
(* Requests served concurrently: each call of predict() has its own       *)
(* locals and reads the module-level cutoff_data; the calls interleave    *)
(* between the checks, the pre-filter, each entry of the loop and the     *)
(* response                                                                *)

SharedCatalogs == SeqsUpTo({RecordPool[2], RecordPool[3]}, MaxRecords)

ConcurrentRequests ==
  { Req({}, NumRank(5000), s_gm, s_cs, s_q_round1, FALSE, <<>>),
    Req({}, NumRank(5000), s_gm, s_cs, s_q_all, FALSE, s_E001_A),
    Req({}, NumRank(5000), s_xyz, s_cs, s_q_round1, FALSE, <<>>) }

\* a set of keys kept at module level, shared by the requests
SeenOf_Shared(ths, t) == UNION {ths[u].seen_combinations : u \in Threads}

\* app.py 775, 798: seen_combinations is a local of the call
SeenOf(ths, t) == ths[t].seen_combinations

InFlight(l) == l.pc \notin {"idle", "done"}

\* thread t takes a step that leaves its locals as l; the other requests in
\* progress are marked as having been interleaved with
StepTo(t, l) ==
  /\ threads' = [u \in Threads |->
                   IF u = t THEN l
                   ELSE IF InFlight(threads[u])
                   THEN [threads[u] EXCEPT !.interleaved = TRUE]
                   ELSE threads[u]]
  /\ UNCHANGED <<cutoff_data, pc, user_input, resolved, response, res_values, res_input, res_result, norm_arg, norm_out>>

\* app.py 634: a request arrives, with fresh locals
T_Receive(t, inp) ==
  /\ ~InFlight(threads[t])
  /\ StepTo(t, [IdleThread EXCEPT !.pc = "received", !.user_input = inp])

Checked(l, r) ==
  IF r.ok THEN [l EXCEPT !.pc = "resolved", !.q = r.q]
  ELSE [l EXCEPT !.pc = "done", !.response = r.error]

\* app.py 650-745: the checks
T_Check(t) ==
  /\ threads[t].pc = "received"
  /\ StepTo(t, Checked(threads[t], ResolveQuery(cutoff_data, threads[t].user_input)))

PreFiltered(data, l, fd) ==
  IF fd = <<>> THEN [l EXCEPT !.pc = "done", !.response = Filter(data, l.q, <<>>)]
  ELSE [l EXCEPT !.pc = "matching", !.filtered_data = fd, !.i = 1,
                 !.seen_combinations = {}, !.matching_colleges = <<>>]

\* app.py 747-775: the pre-filter, and the empty containers of the loop
T_PreFilter(t) ==
  /\ threads[t].pc = "resolved"
  /\ StepTo(t, PreFiltered(cutoff_data, threads[t], PreFilter(cutoff_data, threads[t].q)))

\* app.py 778-823: what happens to entry e
EntryOutcome(e, q, seen) ==
  IF ~RoundPass(e, q.is_all_rounds, q.input_round_norm) THEN "skip"
  ELSE IF CompareRaises(e) THEN "error"
  ELSE IF ~RankPass(e, q.rank, q.include_nearby) \/ IsDuplicate(combo_key(e), seen)
  THEN "skip"
  ELSE IF DivisionRaises(q.rank) THEN "error_after_key"
  ELSE "append"

EntryDone(l, e, outcome) ==
  [l EXCEPT !.i = @ + 1,
            !.seen_combinations =
               IF outcome \in {"error_after_key", "append"}
               THEN @ \cup {combo_key(e)} ELSE @,
            !.matching_colleges =
               IF outcome = "append" THEN Append(@, Enrich(e, l.q.rank)) ELSE @]

\* one turn of the loop of app.py 777-823
T_MatchEntry(t) ==
  /\ threads[t].pc = "matching"
  /\ threads[t].i <= Len(threads[t].filtered_data)
  /\ StepTo(t, EntryDone(threads[t], threads[t].filtered_data[threads[t].i],
                         EntryOutcome(threads[t].filtered_data[threads[t].i],
                                      threads[t].q, SeenOf(threads, t))))

\* app.py 825-847: the loop is over, the response is built
T_Respond(t) ==
  /\ threads[t].pc = "matching"
  /\ threads[t].i > Len(threads[t].filtered_data)
  /\ StepTo(t, [threads[t] EXCEPT
                  !.pc = "done",
                  !.response = Ranked(cutoff_data, threads[t].q,
                                      threads[t].matching_colleges)])

InitConcurrent ==
  /\ cutoff_data \in SharedCatalogs
  /\ pc = "idle"
  /\ user_input = NoInput
  /\ resolved = NoQuery
  /\ response = Resp("none", 0)
  /\ res_values = {}
  /\ res_input = <<>>
  /\ res_result = NoneVal
  /\ threads = NoThreads
  /\ norm_arg = <<>>
  /\ norm_out = <<>>

NextConcurrent ==
  \E t \in Threads :
    \/ \E inp \in ConcurrentRequests : T_Receive(t, inp)
    \/ T_Check(t)
    \/ T_PreFilter(t)
    \/ T_MatchEntry(t)
    \/ T_Respond(t)

SpecConcurrent == InitConcurrent /\ [][NextConcurrent]_vars

\* C16: whatever the interleaving of the requests in progress, no step
\* changes the catalog, and the response of every finished request is the
\* response that request gets when it is handled alone on the catalog.
C16_RequestsDoNotInterfere ==
  /\ [][cutoff_data' = cutoff_data]_vars
  /\ [](\A t \in Threads :
          threads[t].pc = "done"
            => threads[t].response = predict(cutoff_data, threads[t].user_input))

\* C16 witness: a request ended with results after steps of another request
\* were taken while it was in progress, and that other request, with another
\* body, is in the middle of its loop
C16_Witness ==
  \E t, u \in Threads :
    /\ threads[t].pc = "done" /\ threads[t].interleaved
    /\ threads[t].response.kind = "results"
    /\ threads[u].pc = "matching" /\ threads[u].i > 1
    /\ threads[u].user_input # threads[t].user_input

-----------------------------------------------------------------------------
(* Properties of an answered request                                       *)

\* the last request has been answered
Done == pc = "idle" /\ response.kind # "none"

\* the last request passed every check and went through the pipeline
Matched == Done /\ resolved.set

\* a result entry carries the fields of catalog record e
SameRecord(x, e) ==
  /\ x.institute_code = e.institute_code /\ x.institute = e.institute
  /\ x.course_code = e.course /\ x.category = e.category
  /\ x.cutoff_rank = e.cutoff_rank /\ x.year = e.year /\ x.round = e.round

InResults(resp, e) ==
  resp.kind = "results" /\ \E i \in 1..Len(resp.results) : SameRecord(resp.results[i], e)

\* record e agrees with the resolved query on year, category, course, institute
MatchesQuery(e, q) ==
  /\ e.year = q.year
  /\ e.category = q.category
  /\ (q.course = <<>> \/ e.course = q.course)
  /\ (q.institute = <<>> \/ InstituteKey(e) = q.institute)

ScenarioCatalog == <<Rec(s_2024, s_Round1, s_E001, s_A, s_CS, s_GM, 5000)>>

ScenarioRequest == Req({}, NumRank(5000), s_gm, s_cs, s_q_round1, FALSE, <<>>)

\* C1: for a non-nearby query that names a round, every record that matches
\* the query on year, category, course and institute, whose normalised round
\* equals the normalised round text and whose cutoff_rank >= rank - 1000 is in
\* the result list; the one-record catalog (2024, "Round 1", E001, CS, GM,
\* 5000) queried with rank 5000, "gm", "cs", "2024 round1" yields exactly one
\* result, likely and with rank_diff 0.
C1_EveryMatchingRecordReturned ==
  /\ (Matched /\ ~resolved.include_nearby /\ ~resolved.is_all_rounds
        /\ resolved.rank > 0)
       => \A i \in 1..Len(cutoff_data) :
            LET e == cutoff_data[i] IN
            (/\ MatchesQuery(e, resolved)
             /\ norm(e.round) = norm(resolved.round_text)
             /\ e.cutoff_rank >= resolved.rank - 1000)
              => InResults(response, e)
  /\ (Done /\ cutoff_data = ScenarioCatalog /\ user_input = ScenarioRequest)
       => /\ response.kind = "results"
          /\ Len(response.results) = 1
          /\ response.results[1].likely
          /\ response.results[1].rank_diff.num = 0

\* C2: a request with an empty course never ends in an unknown-course error;
\* it runs with no course filter, so records of every course that pass the
\* other filters are eligible.
C2_EmptyCourseMeansNoFilter ==
  (Done /\ user_input.absent = {} /\ user_input.course = <<>>)
    => /\ response.kind # "course_not_found"
       /\ resolved.set => resolved.course = <<>>

\* the round text of the request says "all rounds", in any case
SaysAllRounds(inp) == Contains(Lower(inp.round_name), AllRoundsText)

\* C3: a request whose round text contains "all rounds" sets the all-rounds
\* flag, never ends in an unknown-round error whatever rounds the catalog
\* holds, and its result spans the matching records of every round of the year.
C3_AllRoundsSkipsRoundResolution ==
  (Done /\ user_input.absent = {} /\ SaysAllRounds(user_input))
    => /\ response.kind # "round_not_found"
       /\ resolved.set => resolved.is_all_rounds
       /\ (resolved.set /\ resolved.rank > 0) =>
            \A i \in 1..Len(cutoff_data) :
              (MatchesQuery(cutoff_data[i], resolved)
                 /\ RankPass(cutoff_data[i], resolved.rank, resolved.include_nearby))
                => InResults(response, cutoff_data[i])

\* the round text was resolved by approximate match, not by its normal form
ApproximateRound == resolved.input_round_norm \notin NormKeys(FieldSet(cutoff_data, "round"))

\* C4: when the round text resolves to catalog round R, also by approximate
\* match, the records returned are those of round R: every record that
\* matches the other filters, passes the rank rule and whose normalised round
\* is norm(R) is in the result list.
C4_ResolvedRoundIsFiltered ==
  (Matched /\ ~resolved.is_all_rounds /\ ApproximateRound /\ resolved.rank > 0)
    => \A i \in 1..Len(cutoff_data) :
         LET e == cutoff_data[i] IN
         (/\ MatchesQuery(e, resolved)
          /\ norm(e.round) = norm(resolved.round_match)
          /\ RankPass(e, resolved.rank, resolved.include_nearby))
           => InResults(response, e)

\* C6: every record returned with include_nearby = false is also returned
\* for the same request with include_nearby = true.
C6_NearbyOnlyWidens ==
  (Done /\ response.kind = "results" /\ ~user_input.include_nearby)
    => LET wide == predict(cutoff_data, [user_input EXCEPT !.include_nearby = TRUE])
       IN  \A i \in 1..Len(response.results) :
             /\ wide.kind = "results"
             /\ \E j \in 1..Len(wide.results) :
                  /\ wide.results[j].institute_code = response.results[i].institute_code
                  /\ wide.results[j].course_code = response.results[i].course_code
                  /\ wide.results[j].category = response.results[i].category
                  /\ wide.results[j].cutoff_rank = response.results[i].cutoff_rank
                  /\ wide.results[j].year = response.results[i].year
                  /\ wide.results[j].round = response.results[i].round

\* the records that passed the pre-filter of the last request
Filtered == PreFilter(cutoff_data, resolved)

\* C7: with include_nearby = false every result has
\* cutoff_rank >= rank - 1000.
C7_ExactWindow ==
  (Done /\ response.kind = "results" /\ ~user_input.include_nearby)
    => \A i \in 1..Len(response.results) :
         response.results[i].cutoff_rank >= resolved.rank - 1000

\* C7 witness: a non-nearby result list, with a pre-filtered record below
\* rank - 1000 left out
C7_Witness ==
  /\ Done /\ response.kind = "results" /\ ~user_input.include_nearby
  /\ \E i \in 1..Len(Filtered) : Filtered[i].cutoff_rank < resolved.rank - 1000

\* C8: with include_nearby = true every result has
\* min_rank <= cutoff_rank <= max_rank + 75000, min_rank and max_rank being
\* rank * 0.85 and rank * 1.15 truncated as the floating-point product is.
C8_NearbyWindow ==
  (Done /\ response.kind = "results" /\ user_input.include_nearby)
    => \A i \in 1..Len(response.results) :
         /\ MinRank(resolved.rank, TRUE) <= response.results[i].cutoff_rank
         /\ response.results[i].cutoff_rank <= MaxRank(resolved.rank, TRUE) + 75000

\* C8 witness: a nearby result list, with one pre-filtered record below the
\* window and one above it left out
C8_Witness ==
  /\ Done /\ response.kind = "results" /\ user_input.include_nearby
  /\ \E i \in 1..Len(Filtered) : Filtered[i].cutoff_rank < MinRank(resolved.rank, TRUE)
  /\ \E i \in 1..Len(Filtered) :
       Filtered[i].cutoff_rank > MaxRank(resolved.rank, TRUE) + 75000

\* C9: no two entries of the result list agree on (institute_code,
\* course_code, category, cutoff_rank, year, round), duplicates in the
\* catalog or not.
C9_NoDuplicateResults ==
  Done =>
    \A i, j \in 1..Len(response.results) :
      (/\ response.results[i].institute_code = response.results[j].institute_code
       /\ response.results[i].course_code = response.results[j].course_code
       /\ response.results[i].category = response.results[j].category
       /\ response.results[i].cutoff_rank = response.results[j].cutoff_rank
       /\ response.results[i].year = response.results[j].year
       /\ response.results[i].round = response.results[j].round)
        => i = j

\* C9 witness: results from a catalog that holds the returned record twice
C9_Witness ==
  /\ Done /\ response.kind = "results"
  /\ \E i, j \in 1..Len(cutoff_data) :
       /\ i < j /\ cutoff_data[i] = cutoff_data[j]
       /\ InResults(response, cutoff_data[i])

\* the sort key of a result entry, as a pair of integers
SortKey(x) == <<IF x.likely THEN 0 ELSE 1, x.cutoff_rank>>

\* the position in the catalog of the first record a result entry was made of
FirstIndex(x) ==
  CHOOSE i \in 1..Len(cutoff_data) :
    /\ SameRecord(x, cutoff_data[i])
    /\ \A k \in 1..(i - 1) : ~SameRecord(x, cutoff_data[k])

\* C10: the result list ascends by (not likely, cutoff_rank), and entries
\* equal on that pair appear in the order of their records in the catalog.
C10_SortedAndStable ==
  Done =>
    \A i, j \in 1..Len(response.results) :
      i < j =>
        LET a == SortKey(response.results[i])
            b == SortKey(response.results[j])
        IN  /\ a[1] < b[1] \/ (a[1] = b[1] /\ a[2] <= b[2])
            /\ a = b => FirstIndex(response.results[i]) < FirstIndex(response.results[j])

\* C10 witness: the sort moved an entry, and two entries tie on the key
C10_Witness ==
  /\ Done /\ response.kind = "results"
  /\ MatchingColleges(cutoff_data, resolved) # response.results
  /\ \E i, j \in 1..Len(response.results) :
       i < j /\ SortKey(response.results[i]) = SortKey(response.results[j])

-----------------------------------------------------------------------------
(* Properties of the checks of a request                                   *)

\* the rank of the request is a JSON integer or a string that int() accepts
RankParses(inp) == ParseRank(inp.rank).ok

\* C11: the rank of a resolved query is a positive integer, and a request
\* whose rank is non-numeric, zero or negative ends with the invalid-rank
\* error and never reaches the pipeline.
C11_RankIsPositive ==
  /\ (Done /\ resolved.set) => resolved.rank > 0
  /\ (Done /\ user_input.absent = {}
        /\ (~RankParses(user_input) \/ ParseRank(user_input.rank).n <= 0))
       => response.kind = "invalid_rank" /\ ~resolved.set

\* record e passes the non-rank filters of resolved query q: year, category,
\* course, institute, and the resolved round unless all rounds are asked for
NonRankMatch(e, q) ==
  /\ MatchesQuery(e, q)
  /\ (q.is_all_rounds \/ norm(e.round) = norm(q.round_match))

\* the positions of the catalog records that pass the non-rank filters
NonRankMatches == {i \in 1..Len(cutoff_data) : NonRankMatch(cutoff_data[i], resolved)}

\* C12: the no-data response is returned exactly when no catalog record
\* passes the non-rank filters of the resolved query, the empty-after-rank
\* response exactly when some record passes them and none of those passes the
\* rank admission rule; the first is a 404 that carries the available years,
\* categories, courses and rounds, the second is not.
C12_NoDataVersusEmptyAfterRank ==
  Matched =>
    /\ response.kind = "no_data" <=> NonRankMatches = {}
    /\ response.kind = "empty_after_rank" <=>
         /\ NonRankMatches # {}
         /\ \A i \in NonRankMatches :
              ~RankPass(cutoff_data[i], resolved.rank, resolved.include_nearby)
    /\ response.kind = "no_data" =>
         /\ response.status = 404
         /\ response.available =
              Available(cutoff_data, {"years", "categories", "courses", "rounds"})
    /\ response.kind = "empty_after_rank" => response.status # 404

\* `' ' in s`
HasSpace(s) == \E i \in 1..Len(s) : s[i] = " "

\* the year a request asks for and its round text (app.py 722-730)
QueryYear(data, inp) ==
  IF HasSpace(inp.round_name) THEN SplitFirstSpace(inp.round_name)[1]
  ELSE LatestYear(data)

QueryRoundText(inp) ==
  IF HasSpace(inp.round_name) THEN SplitFirstSpace(inp.round_name)[2]
  ELSE inp.round_name

\* the round labels of the catalog records of one year
RoundsOfYear(data, year) ==
  {data[i].round : i \in {j \in 1..Len(data) : data[j].year = year}}

\* the round text resolved against the rounds of the year asked for
RoundWithinYear(data, inp) ==
  resolve(QueryRoundText(inp), RoundsOfYear(data, QueryYear(data, inp)))

\* C14: the round text of a request that passed the earlier checks is
\* resolved against the round labels of the records of the resolved year
\* only: the request is resolved to what that resolution finds, and when it
\* finds nothing the request ends in the unknown-round error, whose
\* suggestions are the normalised rounds of that year.
C14_RoundResolvedWithinYear ==
  (Done /\ ~SaysAllRounds(user_input)
     /\ response.kind \notin {"missing_fields", "invalid_rank", "category_not_found",
                              "course_not_found", "no_year_data"})
    => IF RoundWithinYear(cutoff_data, user_input).found
       THEN /\ resolved.set
            /\ resolved.round_match = RoundWithinYear(cutoff_data, user_input).val
       ELSE /\ response.kind = "round_not_found"
            /\ response.suggestions =
                 SortedStrs(NormKeys(RoundsOfYear(cutoff_data,
                                                  QueryYear(cutoff_data, user_input))))

\* C17: for a request that was resolved, when round_name holds no space the
\* round text is the whole of it and the year is a year of the catalog that
\* no other year of the catalog exceeds as a string; when it holds a space,
\* round_name is the year, one space and the round text, and the year holds
\* no space.
C17_YearAndRoundTextOfRoundName ==
  (Done /\ resolved.set) =>
    IF ~HasSpace(user_input.round_name)
    THEN /\ resolved.round_text = user_input.round_name
         /\ resolved.year \in FieldSet(cutoff_data, "year")
         /\ \A y \in FieldSet(cutoff_data, "year") :
              y = resolved.year \/ StrLess(y, resolved.year)
    ELSE /\ user_input.round_name = resolved.year \o <<" ">> \o resolved.round_text
         /\ ~HasSpace(resolved.year)

\* C17 witness: a round_name without a space was resolved on a catalog with
\* the years '2024' and '999' to year '999', the greater string though the
\* smaller number
C17_Witness ==
  /\ Done /\ resolved.set
  /\ ~HasSpace(user_input.round_name)
  /\ {s_2024, s_999} \subseteq FieldSet(cutoff_data, "year")
  /\ resolved.year = s_999
  /\ response.kind = "results"

\* each check of the handler on its own: would it fail for this request?
FailsMissing(inp) == inp.absent \cap {"rank", "category", "round_name"} # {}

FailsRank(inp) == ~RankParses(inp)

FailsCategory(data, inp) == ~resolve(inp.category, FieldSet(data, "category")).found

FailsCourse(data, inp) == ~resolve(inp.course, FieldSet(data, "course")).found

FailsRound(data, inp) ==
  IF HasSpace(inp.round_name)
  THEN ~resolve(SplitFirstSpace(inp.round_name)[2], FieldSet(data, "round")).found
  ELSE \/ FieldSet(data, "year") = {}
       \/ ~resolve(inp.round_name, FieldSet(data, "round")).found

\* the failure the response reports when the checks run in the order
\* missing fields, rank, category, course, round
FirstFailure(data, inp) ==
  IF FailsMissing(inp) THEN "missing_fields"
  ELSE IF FailsRank(inp) THEN "invalid_rank"
  ELSE IF FailsCategory(data, inp) THEN "category_not_found"
  ELSE IF FailsCourse(data, inp) THEN "course_not_found"
  ELSE IF FailsRound(data, inp)
  THEN (IF ~HasSpace(inp.round_name) /\ FieldSet(data, "year") = {}
        THEN "no_year_data" ELSE "round_not_found")
  ELSE "none"

\* the field whose normalised values a failure lists as suggestions
SuggestedField(kind) ==
  CASE kind = "category_not_found" -> "category"
    [] kind = "course_not_found" -> "course"
    [] OTHER -> "round"

\* C13: the checks run in the order missing fields, rank parse, category,
\* course, round/year; the response of a request that fails a check reports
\* the first failing check and nothing of a later one, the request is not
\* resolved and nothing is filtered; a request that fails none goes on to the
\* pipeline.
C13_FirstFailingCheckEndsRequest ==
  Done =>
    LET first == FirstFailure(cutoff_data, user_input) IN
    /\ first # "none" =>
         /\ response.kind = first
         /\ response.status = 400
         /\ ~resolved.set
         /\ response.results = <<>> /\ response.criteria = <<>>
         /\ response.available = <<>>
         /\ first # "missing_fields" => response.missing = <<>>
         /\ \A i \in 1..Len(response.suggestions) :
              /\ first \in {"category_not_found", "course_not_found", "round_not_found"}
              /\ response.suggestions[i]
                   \in NormKeys(FieldSet(cutoff_data, SuggestedField(first)))
    /\ first = "none" =>
         /\ resolved.set
         /\ response.kind \in {"no_data", "empty_after_rank", "results"}

\* C13 witness: on a catalog with records, a request with every field whose
\* rank, category, course and round would each fail was answered with the
\* rank error alone
C13_Witness ==
  /\ Done /\ cutoff_data # <<>>
  /\ ~FailsMissing(user_input)
  /\ FailsRank(user_input) /\ FailsCategory(cutoff_data, user_input)
  /\ FailsCourse(cutoff_data, user_input) /\ FailsRound(cutoff_data, user_input)
  /\ response.kind = "invalid_rank" /\ response.suggestions = <<>>

\* text x has no candidate among the values: its normal form is no
\* normalised value, and none has a similarity of 0.6 or more with it
NoCandidate(x, values) ==
  /\ norm(x) \notin NormKeys(values)
  /\ \A k \in NormKeys(values) : ~RatioAtLeastCutoff(k, norm(x))

\* l lists the normal forms of the values, each once, in ascending order
IsSuggestionList(l, values) ==
  /\ {l[i] : i \in 1..Len(l)} = {norm(v) : v \in values}
  /\ \A i, j \in 1..Len(l) : i < j => StrLess(l[i], l[j])

\* C18: a category, course or round text without a candidate among the
\* catalog values of its field ends the request, when no earlier check
\* failed, in the not-found error of that field, whose suggestions are the
\* complete sorted list of the normalised catalog values of the field.
C18_FailureListsNormalisedValues ==
  (Done /\ ~FailsMissing(user_input) /\ ~FailsRank(user_input)) =>
    /\ NoCandidate(user_input.category, FieldSet(cutoff_data, "category"))
         => /\ response.kind = "category_not_found"
            /\ IsSuggestionList(response.suggestions, FieldSet(cutoff_data, "category"))
    /\ (response.kind # "category_not_found"
          /\ NoCandidate(user_input.course, FieldSet(cutoff_data, "course")))
         => /\ response.kind = "course_not_found"
            /\ IsSuggestionList(response.suggestions, FieldSet(cutoff_data, "course"))
    /\ (response.kind \notin {"category_not_found", "course_not_found", "no_year_data"}
          /\ NoCandidate(QueryRoundText(user_input), FieldSet(cutoff_data, "round")))
         => /\ response.kind = "round_not_found"
            /\ IsSuggestionList(response.suggestions, FieldSet(cutoff_data, "round"))

\* C18 witness: category 'xyz123' on a catalog with two categories ended in
\* the category error with both normalised categories, in order
C18_Witness ==
  /\ Done /\ user_input.category = s_xyz123
  /\ response.kind = "category_not_found"
  /\ response.suggestions = <<s_gm, <<"s", "c">> >>

-----------------------------------------------------------------------------
(* Properties of the matching loop                                         *)

\* processing entry e of the pre-filtered list raises for resolved query q:
\* at the rank comparison, or at the division once the rank rule let it pass
Raising(e, q) ==
  /\ RoundPass(e, q.is_all_rounds, q.input_round_norm)
  /\ \/ CompareRaises(e)
     \/ DivisionRaises(q.rank) /\ RankPass(e, q.rank, q.include_nearby)

\* the pre-filtered list without the entries that raise
WithoutRaising(fd, q) == SelectSeq(fd, LAMBDA e : ~Raising(e, q))

SameTuple(x, e) ==
  /\ x.institute_code = e.institute_code /\ x.course_code = e.course
  /\ x.category = e.category /\ x.cutoff_rank = e.cutoff_rank
  /\ x.year = e.year /\ x.round = e.round

\* record e passes every filter of resolved query q without raising
PassesAll(e, q) ==
  /\ PreFilterPass(e, q.year, q.category, q.course, q.institute,
                   q.is_all_rounds, q.input_round_norm)
  /\ RoundPass(e, q.is_all_rounds, q.input_round_norm)
  /\ ~CompareRaises(e)
  /\ RankPass(e, q.rank, q.include_nearby)

\* the first catalog record that passes every filter and has the six
\* fields of record e
FirstOfTuple(e, q) ==
  cutoff_data[CHOOSE j \in 1..Len(cutoff_data) :
                /\ PassesAll(cutoff_data[j], q)
                /\ SameTuple(Enrich(cutoff_data[j], q.rank), e)
                /\ \A k \in 1..(j - 1) :
                     ~(PassesAll(cutoff_data[k], q)
                         /\ SameTuple(Enrich(cutoff_data[k], q.rank), e))]

\* C20: every record that passes all filters has an entry with its six
\* fields in the result list, so only records identical in all six to an
\* earlier kept one are dropped, whatever characters the fields hold, and
\* that entry is made of the first such record in catalog order.
C20_DedupOnlyIdenticalTuples ==
  (Matched /\ resolved.rank # 0) =>
    \A i \in 1..Len(cutoff_data) :
      PassesAll(cutoff_data[i], resolved) =>
        \E k \in 1..Len(response.results) :
          /\ SameTuple(response.results[k], cutoff_data[i])
          /\ response.results[k].institute
               = FirstOfTuple(cutoff_data[i], resolved).institute

-----------------------------------------------------------------------------
(* The fuzzy resolver on its own: a set of catalog values, texts to resolve *)

\* the values catalogs of one field are built from
ValuePool ==
  { <<"G", "M">>,
    <<"g", "m">>,
    <<"G", " ", "M">>,
    <<"A", "&", "B">>,
    <<"a", " ", "a", "n", "d", " ", "b">>,
    <<>>,
    <<" ">> }

\* the texts resolved: the values themselves, variants of them, and others
InputPool ==
  ValuePool \cup
  { <<"G", "m">>,
    <<" ", "g", " ", "m", " ">>,
    <<"A", "a", "n", "d", "B">>,
    <<"A", " ", "&", " ", "b">>,
    <<"g">>,
    <<"x", "y", "z">> }

\* the most values of a field
MaxValues == 2

ValueSets == {S \in SUBSET ValuePool : Cardinality(S) <= MaxValues}

InitResolve ==
  /\ cutoff_data = <<>>
  /\ pc = "unresolved"
  /\ user_input = NoInput
  /\ resolved = NoQuery
  /\ response = Resp("none", 0)
  /\ res_values \in ValueSets
  /\ res_input = <<>>
  /\ res_result = NoneVal
  /\ threads = NoThreads
  /\ norm_arg = <<>>
  /\ norm_out = <<>>

\* app.py 705-708, 713-716, 732-735 on one text
Resolve(x) ==
  /\ pc \in {"unresolved", "resolved"}
  /\ pc' = "resolved"
  /\ res_input' = x
  /\ res_result' = resolve(x, res_values)
  /\ UNCHANGED <<cutoff_data, user_input, resolved, response, res_values, threads, norm_arg, norm_out>>

NextResolve == \E x \in InputPool : Resolve(x)

SpecResolve == InitResolve /\ [][NextResolve]_vars

\* a text is v or a case, space or ampersand variant of v iff both have the
\* same normal form
IsVariant(x, v) == norm(x) = norm(v)

\* C5 as claimed: for every set of values and every value v of it,
\* resolving v or a variant of v returns exactly v.
C5_ReflexiveForEveryCatalog ==
  pc = "resolved" =>
    \A v \in res_values : IsVariant(res_input, v) => res_result = Some(v)

\* no two values of the set share a normal form
DistinctKeys(values) ==
  \A v, w \in values : norm(v) = norm(w) => v = w

\* C5 amended: for every set of values of pairwise distinct normal forms and
\* every value v of it other than the empty string, resolving v or a variant
\* of v returns exactly v.
C5_ReflexiveForDistinctKeys ==
  (pc = "resolved" /\ DistinctKeys(res_values)) =>
    \A v \in res_values :
      (v # <<>> /\ IsVariant(res_input, v)) => res_result = Some(v)

\* C5 witness: among two values, a variant that is not the value itself
\* resolved to the value
C5_Witness ==
  /\ pc = "resolved" /\ DistinctKeys(res_values) /\ Cardinality(res_values) >= 2
  /\ \E v \in res_values :
       /\ v # <<>> /\ res_input # v /\ res_input # norm(v)
       /\ IsVariant(res_input, v)
       /\ res_result = Some(v)

-----------------------------------------------------------------------------
(* The normalizer on its own: norm applied to a string, and to its result  *)

\* the characters of the strings normalised: the two kinds of whitespace,
\* the ampersand, an upper-case and a lower-case letter
NormAlphabet == {" ", "\t", "&", "A", "d"}

\* the longest string normalised
MaxLen == 4

InitNorm ==
  /\ cutoff_data = <<>>
  /\ pc = "raw"
  /\ user_input = NoInput
  /\ resolved = NoQuery
  /\ response = Resp("none", 0)
  /\ res_values = {}
  /\ res_input = <<>>
  /\ res_result = NoneVal
  /\ threads = NoThreads
  /\ norm_arg \in SeqsUpTo(NormAlphabet, MaxLen)
  /\ norm_out = <<>>

\* app.py 699: norm(s)
Normalize ==
  /\ pc = "raw"
  /\ pc' = "normalized"
  /\ norm_out' = norm(norm_arg)
  /\ UNCHANGED <<cutoff_data, user_input, resolved, response, res_values, res_input, res_result, threads, norm_arg>>

\* norm applied to its own result
NormalizeAgain ==
  /\ pc = "normalized"
  /\ pc' = "renormalized"
  /\ norm_arg' = norm_out
  /\ norm_out' = norm(norm_out)
  /\ UNCHANGED <<cutoff_data, user_input, resolved, response, res_values, res_input, res_result, threads>>

NextNorm == Normalize \/ NormalizeAgain

SpecNorm == InitNorm /\ [][NextNorm]_vars

\* C19: norm(norm(x)) = norm(x): applying norm to a normalised string
\* returns that string.
C19_NormIsIdempotent == pc = "renormalized" => norm_out = norm_arg

\* C19 witness: the first application changed the string, by its case, its
\* spaces and an ampersand, and the second was applied to the result
C19_Witness ==
  /\ pc = "renormalized"
  /\ norm_arg = <<"a", "a", "n", "d">>
  /\ norm_out = norm_arg

====
